---- MODULE Spec2Model ----
(***************************************************************************)
(* Model of the scientific-activity scoring service (core.py, models.py,  *)
(* main.py): the scoring engine (normalize, classify_level, evaluate) and  *)
(* the request handlers that persist and list its results.                 *)
(*                                                                         *)
(* Numbers.  The code computes with Python floats, which are IEEE-754      *)
(* binary64 values, and the model computes with the same values: a finite  *)
(* float is a record holding the sign s, the odd significand m and the     *)
(* exponent e of (-1)^s * m * 2^e, and +, -, *, /, the comparisons and     *)
(* round(x, 3) return what Python returns, rounding included.  Since TLC   *)
(* integers have 32 bits, a significand is a sequence of limbs of 15 bits, *)
(* least significant first: m = m[1] + m[2] * 2^15 + m[3] * 2^30 + ...     *)
(* Frac(n, d) is the float that the literal n/d denotes, so Frac(1, 4) is  *)
(* 0.25 and Frac(1, 3) is 0.3333333333333333.                              *)
(*                                                                         *)
(* Strings.  The tier labels of core.py are "Past", "O'rtacha", "Yuqori"   *)
(* and "Juda yuqori" (Low, Medium, High, Very High); the source spells the *)
(* second one with a typographic apostrophe, written here in ASCII.        *)
(***************************************************************************)
EXTENDS Integers, Sequences, FiniteSets

VARIABLES
    fn,         \* engine harness: the function being called, or "none"
    arg,        \* engine harness: its argument
    ret,        \* engine harness: <<>> before the call, <<v>> once it returned v
    store,      \* the evaluations table: its rows in insertion order
    last,       \* the most recent request to the service and its outcome
    running,    \* the /evaluate handlers that have committed their row and
                \* have not yet refreshed it and returned
    returned,   \* history: the results /evaluate returned since the start
    failed      \* history: number of /evaluate requests that failed since then

vars == <<fn, arg, ret, store, last, running, returned, failed>>

-----------------------------------------------------------------------------
(* Bounds of the model *)

\* longest indicator list of a request given to evaluate
MaxInds == 4
\* longest indicator list drawn from all the indicator choices; a longer one
\* is drawn from the choices that leave no block empty
MaxVaried == 2
\* largest magnitude of the raw value and bounds given to normalize
MaxMagnitude == 3
\* number of /evaluate requests received after the service started
MaxRequests == 2
\* number of rows the table may hold when the service starts
MaxStored == 1

-----------------------------------------------------------------------------
(* Natural numbers of any size: sequences of limbs, least significant      *)
(* first, each limb in 0..Limb-1, the last limb not 0; <<>> is 0           *)

\* bits per limb, and the limb base 2^LimbBits
LimbBits == 15
Limb == 32768

\* 2^n, for n in 0..LimbBits
Pow2(n) ==
    <<1, 2, 4, 8, 16, 32, 64, 128, 256, 512, 1024, 2048, 4096, 8192, 16384,
      32768>>[n + 1]

\* number of bits of x, for x in 0..Limb-1
BitLen(x) ==
    IF x = 0 THEN 0
    ELSE CHOOSE n \in 1..LimbBits : Pow2(n - 1) <= x /\ x < Pow2(n)

\* number of trailing zero bits of x, for x in 1..Limb-1
TrailingZeros(x) ==
    CHOOSE n \in 0..(LimbBits - 1) :
        x % Pow2(n) = 0 /\ (x \div Pow2(n)) % 2 = 1

\* the sequence <<f[1], ..., f[n]>>
Prefix(f, n) == SubSeq(f, 1, n)

\* limb i of a, which is 0 beyond the last limb
NatLimb(a, i) == IF 1 <= i /\ i <= Len(a) THEN a[i] ELSE 0

\* a without the limbs 0 at its end
NatTrim(a) ==
    IF a = <<>> \/ \A i \in 1..Len(a) : a[i] = 0 THEN <<>>
    ELSE Prefix(a, CHOOSE i \in 1..Len(a) :
                    a[i] # 0 /\ \A j \in (i + 1)..Len(a) : a[j] = 0)

\* the sequence s in the opposite order
Reverse(s) ==
    IF s = <<>> THEN s
    ELSE SubSeq([k \in 1..Len(s) |-> s[Len(s) + 1 - k]], 1, Len(s))

\* the natural number x < 2^31 as limbs
NatOf(x) == NatTrim(<<x % Limb, (x \div Limb) % Limb, x \div (Limb * Limb)>>)

\* a + b; the limbs below i carry into limb i when one of them overflows and
\* those above it, below i, are full
NatAdd(a, b) ==
    IF a = <<>> THEN b
    ELSE IF b = <<>> THEN a
    ELSE LET n == IF Len(a) > Len(b) THEN Len(a) ELSE Len(b)
             sum(i) == NatLimb(a, i) + NatLimb(b, i)
             carry(i) == \E j \in 1..(i - 1) :
                             /\ sum(j) >= Limb
                             /\ \A k \in (j + 1)..(i - 1) : sum(k) = Limb - 1
             digit(i) == (sum(i) + (IF carry(i) THEN 1 ELSE 0)) % Limb
         IN  NatTrim(Prefix([i \in 1..(n + 1) |-> digit(i)], n + 1))

\* a - b, for a >= b; limb i borrows when a limb below it is short and those
\* between are equal
NatSub(a, b) ==
    IF b = <<>> \/ a = <<>> THEN a
    ELSE LET borrow(i) == \E j \in 1..(i - 1) :
                             /\ NatLimb(a, j) < NatLimb(b, j)
                             /\ \A k \in (j + 1)..(i - 1) :
                                   NatLimb(a, k) = NatLimb(b, k)
             digit(i) == (NatLimb(a, i) - NatLimb(b, i)
                          - (IF borrow(i) THEN 1 ELSE 0) + Limb) % Limb
         IN  NatTrim(Prefix([i \in 1..Len(a) |-> digit(i)], Len(a)))

\* -1, 0 or 1 as a < b, a = b or a > b
NatCmp(a, b) ==
    IF Len(a) < Len(b) THEN 0 - 1
    ELSE IF Len(a) > Len(b) THEN 1
    ELSE IF a = b THEN 0
    ELSE LET i == CHOOSE i \in 1..Len(a) :
                    a[i] # b[i] /\ \A j \in (i + 1)..Len(a) : a[j] = b[j]
         IN  IF a[i] < b[i] THEN 0 - 1 ELSE 1

\* a * Limb^n
NatShlLimbs(a, n) ==
    IF a = <<>> \/ n = 0 THEN a ELSE [i \in 1..n |-> 0] \o a

\* a * x, for x in 0..Limb-1: the low halves of the limb products, plus their
\* high halves one limb up
NatMulSmall(a, x) ==
    IF a = <<>> \/ x = 0 THEN <<>>
    ELSE NatAdd(NatTrim([i \in 1..Len(a) |-> (a[i] * x) % Limb]),
                NatTrim(<<0>> \o [i \in 1..Len(a) |-> (a[i] * x) \div Limb]))

\* a * b: column k collects the low halves of the limb products that fall
\* on limb k and the high halves of those that fall on limb k - 1
NatMul(a, b) ==
    IF a = <<>> \/ b = <<>> THEN <<>> ELSE
    LET n == Len(a) + Len(b)
        RECURSIVE col(_, _)
        col(k, i) ==
            IF i = 0 THEN 0
            ELSE ((NatLimb(a, i) * NatLimb(b, k + 1 - i)) % Limb)
                 + ((NatLimb(a, i) * NatLimb(b, k - i)) \div Limb)
                 + col(k, i - 1)
        d == Prefix([k \in 1..n |-> col(k, Len(a))], n)
    IN  NatAdd(NatTrim([k \in 1..n |-> d[k] % Limb]),
               NatTrim(<<0>> \o [k \in 1..n |-> d[k] \div Limb]))

\* a * 2^n
NatShl(a, n) ==
    IF a = <<>> \/ n = 0 THEN a ELSE
    LET s == n % LimbBits
    IN  NatShlLimbs(
            NatTrim(Prefix([i \in 1..(Len(a) + 1) |->
                              ((NatLimb(a, i) * Pow2(s)) % Limb)
                              + ((NatLimb(a, i - 1) * Pow2(s)) \div Limb)],
                          Len(a) + 1)),
            n \div LimbBits)

\* a \div 2^n
NatShr(a, n) ==
    IF a = <<>> \/ n = 0 THEN a ELSE
    LET s == n % LimbBits
        w == n \div LimbBits
    IN  IF w >= Len(a) THEN <<>>
        ELSE NatTrim(Prefix([i \in 1..(Len(a) - w) |->
                              (NatLimb(a, i + w) \div Pow2(s))
                              + ((NatLimb(a, i + w + 1) % Pow2(s))
                                 * Pow2(LimbBits - s))],
                           Len(a) - w))

\* number of bits of a
NatBitLen(a) ==
    IF a = <<>> THEN 0 ELSE LimbBits * (Len(a) - 1) + BitLen(a[Len(a)])

\* bit n of a (bit 0 is the least significant)
NatBit(a, n) ==
    IF n < 0 \/ n \div LimbBits >= Len(a) THEN 0
    ELSE (a[n \div LimbBits + 1] \div Pow2(n % LimbBits)) % 2

\* the n lowest bits of a are all 0
NatLowZero(a, n) ==
    \/ n <= 0
    \/ a = <<>>
    \/ /\ \A i \in 1..(n \div LimbBits) : i > Len(a) \/ a[i] = 0
       /\ \/ n \div LimbBits >= Len(a)
          \/ a[n \div LimbBits + 1] % Pow2(n % LimbBits) = 0

\* number of trailing zero bits of a, for a # 0
NatTrailingZeros(a) ==
    LET i == CHOOSE i \in 1..Len(a) : a[i] # 0 /\ \A j \in 1..(i - 1) : a[j] = 0
    IN  LimbBits * (i - 1) + TrailingZeros(a[i])

\* the largest element of a set of integers
Largest(S) == CHOOSE q \in S : \A p \in S : p <= q

\* long division of the limbs i..1 of a by x, with the remainder r carried
\* in: the quotient digits, the most significant first, and then the
\* remainder
RECURSIVE NatDivSmallFrom(_, _, _, _)
NatDivSmallFrom(a, x, i, r) ==
    IF i = 0 THEN <<NatOf(r)>>
    ELSE <<(r * Limb + a[i]) \div x>>
         \o NatDivSmallFrom(a, x, i - 1, (r * Limb + a[i]) % x)

\* the quotient digit t \div b, for t < b * Limb and a b whose top limb has
\* its top bit set: the estimate from the top limbs of t and the top limb of
\* b is the digit or exceeds it by 1 or 2
NatDigit(t, b) ==
    LET n == Len(b)
        top == NatLimb(t, n + 1) * Limb + NatLimb(t, n)
        est == IF top \div b[n] < Limb THEN top \div b[n] ELSE Limb - 1
    IN  IF Len(t) < n \/ est = 0 THEN 0
        ELSE Largest({q \in {0, est - 2, est - 1, est} :
                        q >= 0 /\ NatCmp(NatMulSmall(b, q), t) <= 0})

\* long division of the limbs i..1 of a by b, with the remainder r carried
\* in: the quotient digits, the most significant first, and then the
\* remainder
RECURSIVE NatDivFrom(_, _, _, _)

\* the step of the division that takes limb i of a, where t is the remainder
\* carried in with that limb appended and q is the quotient digit t \div b
NatDivStep(a, b, i, t, q) ==
    <<q>> \o NatDivFrom(a, b, i - 1, NatSub(t, NatMulSmall(b, q)))

NatDivAt(a, b, i, t) == NatDivStep(a, b, i, t, NatDigit(t, b))

NatDivFrom(a, b, i, r) ==
    IF i = 0 THEN <<r>> ELSE NatDivAt(a, b, i, NatTrim(<<a[i]>> \o r))

\* <<quotient, remainder>> from the n quotient digits ds, the most
\* significant first, followed by the remainder scaled by 2^k
QuotRem(ds, n, k) ==
    <<NatTrim(Reverse(SubSeq(ds, 1, n))), NatShr(ds[n + 1], k)>>

\* the division of sa by sb, whose top limb has its top bit set; k is the
\* scale of the remainder
NatDivScaled(sa, sb, k) ==
    QuotRem(NatDivFrom(sa, sb, Len(sa) - Len(sb) + 1,
                       SubSeq(sa, Len(sa) - Len(sb) + 2, Len(sa))),
            Len(sa) - Len(sb) + 1, k)

\* <<a \div b, a % b>>, for b # 0; for a b of several limbs a and b are
\* scaled by 2^k to set the top bit of the top limb of b, which leaves the
\* quotient as it is and scales the remainder, and the division starts from
\* the top limbs of a that are too few to hold b
NatDivMod(a, b) ==
    IF Len(a) < Len(b) THEN <<<<>>, a>>
    ELSE IF Len(b) = 1
    THEN QuotRem(NatDivSmallFrom(a, b[1], Len(a), 0), Len(a), 0)
    ELSE NatDivScaled(NatShl(a, LimbBits - BitLen(b[Len(b)])),
                      NatShl(b, LimbBits - BitLen(b[Len(b)])),
                      LimbBits - BitLen(b[Len(b)]))

-----------------------------------------------------------------------------
(* Python floats: IEEE-754 binary64 values, every operation rounded to the *)
(* nearest value, a tie to the even significand.  A finite float is        *)
(* (-1)^s * m * 2^e with m odd (or m = 0 and e = 0), m < 2^53.             *)

\* bits of the significand; exponent of the smallest subnormal; exponent of
\* the leading bit of the largest finite float
Precision == 53
MinExponent == 0 - 1074
MaxExponent == 1023

Finite(s, m, e) == [kind |-> "fin", s |-> s, m |-> m, e |-> e]
Inf(s) == [kind |-> "inf", s |-> s, m |-> <<>>, e |-> 0]
NaN == [kind |-> "nan", s |-> 0, m |-> <<>>, e |-> 0]

\* 0.0 (s = 0) and -0.0 (s = 1)
SignedZero(s) == Finite(s, <<>>, 0)

\* (-1)^s * n * 2^e for a natural number n of at most Precision bits
Canonical(s, n, e) ==
    IF n = <<>> THEN SignedZero(s)
    ELSE IF e + NatBitLen(n) - 1 > MaxExponent THEN Inf(s)
    ELSE Finite(s, NatShr(n, NatTrailingZeros(n)), e + NatTrailingZeros(n))

\* the exponent of the last place of the float nearest to n * 2^e
LastPlace(n, e) ==
    IF e + NatBitLen(n) - Precision > MinExponent
    THEN e + NatBitLen(n) - Precision ELSE MinExponent

\* the integer nearest to (n + f) / 2^sh, a tie to the even one, where
\* kept = n \div 2^sh and f = 0 unless sticky and 0 < f < 1 if sticky
RoundKept(n, sh, kept, sticky) ==
    IF /\ NatBit(n, sh - 1) = 1
       /\ (sticky \/ ~NatLowZero(n, sh - 1) \/ NatBit(kept, 0) = 1)
    THEN NatAdd(kept, <<1>>) ELSE kept

\* the float nearest to (-1)^s * (n + f) * 2^e with the last place q
RoundTo(s, n, e, q, sticky) ==
    Canonical(s,
              IF q <= e THEN n
              ELSE RoundKept(n, q - e, NatShr(n, q - e), sticky),
              IF q <= e THEN e ELSE q)

\* the float nearest to (-1)^s * (n + f) * 2^e, where f = 0 unless sticky and
\* 0 < f < 1 if sticky; sticky only with n of more than Precision + 1 bits
FRound(s, n, e, sticky) ==
    IF n = <<>> THEN SignedZero(s)
    ELSE RoundTo(s, n, e, LastPlace(n, e), sticky)

\* the float nearest to (-1)^s * (qr[1] + f) * 2^e, where f is 0 if the
\* remainder qr[2] is 0 and 0 < f < 1 otherwise
FRoundQuot(s, qr, e) == FRound(s, qr[1], e, qr[2] # <<>>)

\* the float nearest to (-1)^s * (a / b) * 2^e, for natural numbers a # 0 and
\* b # 0, with a scaled by 2^k to give a quotient of more than
\* Precision + 1 bits
FRatioScaled(s, a, b, e, k) ==
    FRoundQuot(s,
               IF b = <<1>> THEN <<a, <<>>>> ELSE NatDivMod(NatShl(a, k), b),
               e - k)

\* the float nearest to (-1)^s * (a / b) * 2^e, for natural numbers a, b # 0
FRatio(s, a, b, e) ==
    IF a = <<>> THEN SignedZero(s)
    ELSE FRatioScaled(s, a, b, e,
                      IF b = <<1>> THEN 0
                      ELSE IF Precision + 2 + NatBitLen(b) > NatBitLen(a)
                      THEN Precision + 2 + NatBitLen(b) - NatBitLen(a)
                      ELSE 0)

\* float(n / d) for integers n and d # 0: the float a decimal or integer
\* literal of that value denotes
Frac(n, d) ==
    FRatio(IF (n < 0) # (d < 0) THEN 1 ELSE 0,
           NatOf(IF n < 0 THEN 0 - n ELSE n),
           NatOf(IF d < 0 THEN 0 - d ELSE d), 0)

Zero == SignedZero(0)
One == Finite(0, <<1>>, 0)

IsZero(a) == a.kind = "fin" /\ a.m = <<>>

\* -a
FNeg(a) == IF a.kind = "nan" THEN a ELSE [a EXCEPT !.s = 1 - a.s]

\* x * 2^e + y * 2^e with the signs sa and sb, where c is -1, 0 or 1 as
\* x < y, x = y or x > y
FAddAligned(sa, x, sb, y, e, c) ==
    IF sa # sb /\ c = 0 THEN Zero
    ELSE FRound(IF sa = sb \/ c > 0 THEN sa ELSE sb,
                IF sa = sb THEN NatAdd(x, y)
                ELSE NatSub(IF c > 0 THEN x ELSE y, IF c > 0 THEN y ELSE x),
                e, FALSE)

\* x * 2^e + y * 2^e with the signs sa and sb
FAddScaled(sa, x, sb, y, e) == FAddAligned(sa, x, sb, y, e, NatCmp(x, y))

\* a + b
FAdd(a, b) ==
    IF a.kind = "nan" \/ b.kind = "nan" THEN NaN
    ELSE IF a.kind = "inf"
         THEN (IF b.kind = "inf" /\ b.s # a.s THEN NaN ELSE a)
    ELSE IF b.kind = "inf" THEN b
    ELSE IF IsZero(a) /\ IsZero(b)
         THEN SignedZero(IF a.s = 1 /\ b.s = 1 THEN 1 ELSE 0)
    ELSE IF IsZero(a) THEN b
    ELSE IF IsZero(b) THEN a
    ELSE FAddScaled(a.s, IF a.e < b.e THEN a.m ELSE NatShl(a.m, a.e - b.e),
                    b.s, IF a.e < b.e THEN NatShl(b.m, b.e - a.e) ELSE b.m,
                    IF a.e < b.e THEN a.e ELSE b.e)

\* a - b
FSub(a, b) == FAdd(a, FNeg(b))

\* a * b
FMul(a, b) ==
    LET s == IF a.s = b.s THEN 0 ELSE 1
    IN  IF a.kind = "nan" \/ b.kind = "nan" THEN NaN
        ELSE IF a.kind = "inf" \/ b.kind = "inf"
             THEN (IF IsZero(a) \/ IsZero(b) THEN NaN ELSE Inf(s))
        ELSE IF IsZero(a) \/ IsZero(b) THEN SignedZero(s)
        ELSE FRound(s, NatMul(a.m, b.m), a.e + b.e, FALSE)

\* a / b, for b # 0 (Python raises ZeroDivisionError for b = 0; the code
\* divides only behind a test that excludes it)
FDiv(a, b) ==
    LET s == IF a.s = b.s THEN 0 ELSE 1
    IN  IF a.kind = "nan" \/ b.kind = "nan" THEN NaN
        ELSE IF a.kind = "inf"
             THEN (IF b.kind = "inf" THEN NaN ELSE Inf(s))
        ELSE IF b.kind = "inf" THEN SignedZero(s)
        ELSE FRatio(s, a.m, b.m, a.e - b.e)

\* -1, 0 or 1: the sign of a, for a not NaN
FSign(a) == IF IsZero(a) THEN 0 ELSE IF a.s = 1 THEN 0 - 1 ELSE 1

\* -1, 0 or 1 as |a| < |b|, |a| = |b| or |a| > |b|, for a, b neither 0 nor NaN
MagCmp(a, b) ==
    IF a.kind = "inf" THEN (IF b.kind = "inf" THEN 0 ELSE 1)
    ELSE IF b.kind = "inf" THEN 0 - 1
    ELSE LET ta == a.e + NatBitLen(a.m)
             tb == b.e + NatBitLen(b.m)
             e == IF a.e < b.e THEN a.e ELSE b.e
         IN  IF ta < tb THEN 0 - 1
             ELSE IF ta > tb THEN 1
             ELSE NatCmp(NatShl(a.m, a.e - e), NatShl(b.m, b.e - e))

\* -1, 0 or 1 as a < b, a == b or a > b, for a, b not NaN
FCmp(a, b) ==
    IF FSign(a) # FSign(b) THEN (IF FSign(a) < FSign(b) THEN 0 - 1 ELSE 1)
    ELSE IF FSign(a) = 0 THEN 0
    ELSE FSign(a) * MagCmp(a, b)

\* a == b, a < b, a <= b: False when either is NaN
FEq(a, b) == a.kind # "nan" /\ b.kind # "nan" /\ FCmp(a, b) = 0
FLt(a, b) == a.kind # "nan" /\ b.kind # "nan" /\ FCmp(a, b) < 0
FLe(a, b) == a.kind # "nan" /\ b.kind # "nan" /\ FCmp(a, b) <= 0

\* max(a, b) and min(a, b) of Python: the first argument unless the second is
\* strictly larger (smaller)
max(a, b) == IF FLt(a, b) THEN b ELSE a
min(a, b) == IF FLt(b, a) THEN b ELSE a

\* the float nearest to (-1)^s * (t / 2^sh) rounded to the nearest integer, a
\* tie to the even one, and divided by 1000
RoundThousandths(s, t, sh) ==
    FRatio(s, RoundKept(t, sh, NatShr(t, sh), FALSE), <<1000>>, 0)

\* round(x, 3): the exact value of x is rounded to the nearest multiple of
\* 1/1000, a tie (possible only for an x that is exactly a tie) to the even
\* multiple, and the result is the float nearest to that multiple; an
\* infinity, a NaN, a zero and an integer are returned as they are
Round3(x) ==
    IF x.kind # "fin" \/ x.m = <<>> \/ x.e >= 0 THEN x
    ELSE RoundThousandths(x.s, NatMulSmall(x.m, 1000), 0 - x.e)

-----------------------------------------------------------------------------
(* The statements of a function run in order: Then(e, F) is F(e), with e   *)
(* computed before the rest, as an assignment computes its right-hand side *)
(* before the statements that follow it                                    *)

Then(e, F(_)) == CHOOSE r \in {F(x) : x \in {e}} : TRUE

-----------------------------------------------------------------------------
(* core.py: normalize *)

\* normalize with the polarity inversion applied to the degenerate case too
normalize_InvertDegenerate(ind) ==
    Then(IF FEq(ind.max_value, ind.min_value) THEN Zero
         ELSE FDiv(FSub(ind.value, ind.min_value),
                   FSub(ind.max_value, ind.min_value)), LAMBDA z :
    Then(IF ~ind.is_benefit THEN FSub(One, z) ELSE z, LAMBDA zz :
         max(Zero, min(One, zz))))

\* normalize without the final clamp
normalize_NoClamp(ind) ==
    IF FEq(ind.max_value, ind.min_value) THEN Zero
    ELSE Then(FDiv(FSub(ind.value, ind.min_value),
                   FSub(ind.max_value, ind.min_value)), LAMBDA z :
              IF ~ind.is_benefit THEN FSub(One, z) ELSE z)

normalize(ind) ==
    IF FEq(ind.max_value, ind.min_value) THEN Zero
    ELSE Then(FDiv(FSub(ind.value, ind.min_value),
                   FSub(ind.max_value, ind.min_value)), LAMBDA z :
         Then(IF ~ind.is_benefit THEN FSub(One, z) ELSE z, LAMBDA zz :
              max(Zero, min(One, zz))))

-----------------------------------------------------------------------------
(* core.py: classify_level *)

Quarter == Finite(0, <<1>>, 0 - 2)
Half == Finite(0, <<1>>, 0 - 1)
ThreeQuarters == Finite(0, <<3>>, 0 - 2)

\* classify_level with the lower bounds exclusive
classify_level_Exclusive(total_index) ==
    IF FLe(total_index, Quarter) THEN "Past"
    ELSE IF FLe(total_index, Half) THEN "O'rtacha"
    ELSE IF FLe(total_index, ThreeQuarters) THEN "Yuqori"
    ELSE "Juda yuqori"

classify_level(total_index) ==
    IF FLt(total_index, Quarter) THEN "Past"
    ELSE IF FLt(total_index, Half) THEN "O'rtacha"
    ELSE IF FLt(total_index, ThreeQuarters) THEN "Yuqori"
    ELSE "Juda yuqori"

-----------------------------------------------------------------------------
(* core.py: evaluate *)

\* the four blocks, in the order block_groups is built and iterated
CategoryCodes == <<"R", "P", "O", "I">>

KnownBlock(b) == \E k \in 1..Len(CategoryCodes) : CategoryCodes[k] = b

\* positions of the indicators whose block is not a key of block_groups
UnknownAt(indicators) ==
    {k \in 1..Len(indicators) : ~KnownBlock(indicators[k].block)}

\* the position at which the grouping loop raises
FirstUnknown(indicators) ==
    CHOOSE k \in UnknownAt(indicators) : \A j \in UnknownAt(indicators) : k <= j

\* the indicators of block b, in request order
InBlock(indicators, b) == SelectSeq(indicators, LAMBDA i : i.block = b)

\* block_groups: block code -> the indicators of the block
block_groups(indicators) ==
    [R |-> InBlock(indicators, "R"), P |-> InBlock(indicators, "P"),
     O |-> InBlock(indicators, "O"), I |-> InBlock(indicators, "I")]

\* z of each indicator of a block, in the order of the inner loop
block_z(group) ==
    SubSeq([k \in 1..Len(group) |-> normalize(group[k])], 1, Len(group))

\* block_sum after the first n indicators of a block
RECURSIVE block_sum(_, _, _)
block_sum(group, z, n) ==
    IF n = 0 THEN Zero
    ELSE FAdd(block_sum(group, z, n - 1), FMul(z[n], group[n].weight))

\* weight_sum after the first n indicators of a block
RECURSIVE weight_sum(_, _)
weight_sum(group, n) ==
    IF n = 0 THEN Zero ELSE FAdd(weight_sum(group, n - 1), group[n].weight)

\* norm_values: id -> normalized value, a later duplicate id overwriting
norm_values(group, z) ==
    [i \in {group[k].id : k \in 1..Len(group)} |->
        LET at == CHOOSE k \in 1..Len(group) :
                    /\ group[k].id = i
                    /\ \A j \in 1..Len(group) : group[j].id = i => j <= k
        IN  z[at]]

EmptyMap == [i \in {} |-> Zero]

\* the block index as the plain mean of the normalized values
block_index_value_Unweighted(group, z) ==
    IF group = <<>> THEN Zero
    ELSE LET RECURSIVE zsum(_)
             zsum(n) == IF n = 0 THEN Zero ELSE FAdd(zsum(n - 1), z[n])
         IN  FDiv(zsum(Len(group)), Frac(Len(group), 1))

\* block_sum / weight_sum if weight_sum > 0 else 0.0
block_quotient(bs, ws) == IF FLt(Zero, ws) THEN FDiv(bs, ws) ELSE Zero

\* block_values[b] of a block with the indicators group: the unrounded index
block_index_value(group, z) ==
    IF group = <<>> THEN Zero
    ELSE block_quotient(block_sum(group, z, Len(group)),
                        weight_sum(group, Len(group)))

\* block code -> the entry of t at the position of the code in CategoryCodes
ByBlock(t) == [R |-> t[1], P |-> t[2], O |-> t[3], I |-> t[4]]

\* z of every indicator: block code -> the z of the block's indicators
all_z(groups) ==
    ByBlock(Prefix([k \in 1..Len(CategoryCodes) |->
                        block_z(groups[CategoryCodes[k]])],
                   Len(CategoryCodes)))

\* block_values: block code -> unrounded index
block_values(groups, zs) ==
    ByBlock(Prefix([k \in 1..Len(CategoryCodes) |->
                        block_index_value(groups[CategoryCodes[k]],
                                          zs[CategoryCodes[k]])],
                   Len(CategoryCodes)))

\* the BlockIndex entry appended for block b, whose block_index_value was
\* stored as bv[b]
BlockIndex(groups, zs, bv, b) ==
    IF groups[b] = <<>>
    THEN [block |-> b, value |-> Zero, indicators |-> EmptyMap]
    ELSE [block |-> b,
          value |-> Round3(bv[b]),
          indicators |-> norm_values(groups[b], zs[b])]

\* block_indices with the blocks that have no indicator left out
block_indices_SkipEmpty(groups, zs, bv) ==
    LET all == [k \in 1..Len(CategoryCodes) |->
                    BlockIndex(groups, zs, bv, CategoryCodes[k])]
    IN  SelectSeq(all, LAMBDA entry : groups[entry.block] # <<>>)

block_indices(groups, zs, bv) ==
    [k \in 1..Len(CategoryCodes) |->
        BlockIndex(groups, zs, bv, CategoryCodes[k])]

\* the weighted sum taken over the rounded block indices
total_index_raw_FromRounded(bw, bv) ==
    FAdd(FAdd(FAdd(FMul(bw.alpha_R, Round3(bv["R"])),
                   FMul(bw.alpha_P, Round3(bv["P"]))),
              FMul(bw.alpha_O, Round3(bv["O"]))),
         FMul(bw.alpha_I, Round3(bv["I"])))

\* the sum of the block indices with the block weights left out
total_index_raw_Unweighted(bw, bv) ==
    FAdd(FAdd(FAdd(bv["R"], bv["P"]), bv["O"]), bv["I"])

total_index_raw(bw, bv) ==
    FAdd(FAdd(FAdd(FMul(bw.alpha_R, bv["R"]), FMul(bw.alpha_P, bv["P"])),
              FMul(bw.alpha_O, bv["O"])),
         FMul(bw.alpha_I, bv["I"]))

\* min(block_values, key=...) keeping the last of equal minima
weakest_block_LastWins(bv) ==
    LET RECURSIVE scan(_)
        scan(n) == IF n = 1 THEN 1
                   ELSE LET best == scan(n - 1)
                        IN  IF FLe(bv[CategoryCodes[n]], bv[CategoryCodes[best]])
                            THEN n ELSE best
    IN  CategoryCodes[scan(Len(CategoryCodes))]

\* min(block_values, key=block_values.get): a scan in key order that replaces
\* its candidate only on a strictly smaller value
weakest_block(bv) ==
    LET RECURSIVE scan(_)
        scan(n) == IF n = 1 THEN 1
                   ELSE LET best == scan(n - 1)
                        IN  IF FLt(bv[CategoryCodes[n]], bv[CategoryCodes[best]])
                            THEN n ELSE best
    IN  CategoryCodes[scan(Len(CategoryCodes))]

\* max(block_values, key=block_values.get)
strongest_block(bv) ==
    LET RECURSIVE scan(_)
        scan(n) == IF n = 1 THEN 1
                   ELSE LET best == scan(n - 1)
                        IN  IF FLt(bv[CategoryCodes[best]], bv[CategoryCodes[n]])
                            THEN n ELSE best
    IN  CategoryCodes[scan(Len(CategoryCodes))]

\* evaluate that drops an indicator of an unknown block instead of raising
evaluate_SkipUnknown(req) ==
    LET groups == block_groups(req.indicators)
    IN  Then(all_z(groups), LAMBDA zs :
        Then(block_values(groups, zs), LAMBDA bv :
        Then(Round3(total_index_raw(req.block_weights, bv)),
             LAMBDA total_index :
                [kind |-> "result",
                 tashkilot |-> req.tashkilot,
                 yil |-> req.yil,
                 total_index |-> total_index,
                 blocks |-> block_indices(groups, zs, bv),
                 level |-> classify_level(total_index),
                 weakest_block |-> weakest_block(bv),
                 strongest_block |-> strongest_block(bv)])))

\* evaluate: what the call returns ("result") or raises ("error")
evaluate(req) ==
    IF UnknownAt(req.indicators) # {}
    THEN [kind |-> "error",
          exception |-> "ValueError",
          code |-> req.indicators[FirstUnknown(req.indicators)].block]
    ELSE LET groups == block_groups(req.indicators)
         IN  Then(all_z(groups), LAMBDA zs :
             Then(block_values(groups, zs), LAMBDA bv :
             Then(Round3(total_index_raw(req.block_weights, bv)),
                  LAMBDA total_index :
                     [kind |-> "result",
                      tashkilot |-> req.tashkilot,
                      yil |-> req.yil,
                      total_index |-> total_index,
                      blocks |-> block_indices(groups, zs, bv),
                      level |-> classify_level(total_index),
                      weakest_block |-> weakest_block(bv),
                      strongest_block |-> strongest_block(bv)])))

-----------------------------------------------------------------------------
(* models.py: the request shapes, and the inputs of the model *)

Indicator(id, block, value, min_value, max_value, weight, is_benefit) ==
    [id |-> id, block |-> block, value |-> value, min_value |-> min_value,
     max_value |-> max_value, weight |-> weight, is_benefit |-> is_benefit]

BlockWeights(aR, aP, aO, aI) ==
    [alpha_R |-> aR, alpha_P |-> aP, alpha_O |-> aO, alpha_I |-> aI]

\* BlockWeights(): every weight at its default
DefaultBlockWeights == BlockWeights(Quarter, Quarter, Quarter, Quarter)

\* Optional[...] fields: <<>> is None, <<v>> is the value v
None == <<>>
Some(v) == <<v>>

EvaluationRequest(tashkilot, yil, indicators, block_weights) ==
    [tashkilot |-> tashkilot, yil |-> yil, indicators |-> indicators,
     block_weights |-> block_weights]

\* Indicator.check_min_max: rejected when max_value <= min_value
check_min_max(ind) == ~FLe(ind.max_value, ind.min_value)

\* Indicator: block is one of the four literals, weight has ge=0 and le=1,
\* and check_min_max passes
IndicatorValid(ind) ==
    /\ KnownBlock(ind.block)
    /\ FLe(Zero, ind.weight) /\ FLe(ind.weight, One)
    /\ check_min_max(ind)

\* BlockWeights.check_non_negative, on each of the four weights: rejected
\* when the weight is < 0
check_non_negative(bw) ==
    /\ ~FLt(bw.alpha_R, Zero) /\ ~FLt(bw.alpha_P, Zero)
    /\ ~FLt(bw.alpha_O, Zero) /\ ~FLt(bw.alpha_I, Zero)

\* what the request boundary accepts as an EvaluationRequest
EvaluationRequestValid(req) ==
    /\ \A k \in 1..Len(req.indicators) : IndicatorValid(req.indicators[k])
    /\ check_non_negative(req.block_weights)

\* Inputs of normalize: raw values in steps of 1/2 from -MaxMagnitude to
\* 2 * MaxMagnitude, bounds from -1 to MaxMagnitude (equal and inverted
\* bounds included), both polarities.
NormalizeInputsOf(half) ==
    {Indicator("i1", "R", half[v], half[2 * lo], half[2 * hi], One, b) :
        v \in (0 - 2 * MaxMagnitude)..(4 * MaxMagnitude),
        lo \in (0 - 1)..MaxMagnitude,
        hi \in (0 - 1)..MaxMagnitude,
        b \in BOOLEAN}

NormalizeInputs ==
    NormalizeInputsOf([k \in (0 - 2 * MaxMagnitude)..(4 * MaxMagnitude) |->
                          Frac(k, 2)])

\* Inputs of classify_level: a grid of step 1/40 from -1/10 to 6/5, and the
\* neighbours of the three thresholds at a distance of 1/1000000.
ClassifyInputs ==
    {Frac(q[1], q[2]) :
        q \in (((0 - 4)..48) \X {40})
              \cup ({249999, 250001, 499999, 500001, 749999, 750001}
                    \X {1000000})}

\* a measurement <<value, min_value, max_value, weight, is_benefit>>, from
\* integers for the value and the bounds and twice the weight
Measurement(m) ==
    Prefix([k \in 1..4 |-> Frac(m[k], IF k = 4 THEN 2 ELSE 1)], 4) \o <<m[5]>>

\* The indicators a request of the model may hold, as <<block, measurement>>;
\* X is a block code outside the four.  Among them are two whose z differ by
\* one unit in the last place (0.3333333333333333 and 0.33333333333333337),
\* and those whose index or weighted sum is the float next to a decimal tie
\* (0.4995, 0.0025, and 0.998 * 0.25 = 0.2495).
IndicatorChoices ==
    {<<"R", <<1, 0, 3, 2, TRUE>>>>,         \* 0.3333333333333333
     <<"R", <<2, 0, 3, 2, FALSE>>>>,        \* 0.33333333333333337
     <<"R", <<1, 0, 2, 2, TRUE>>>>,         \* 0.5
     <<"R", <<5, 0, 2, 1, TRUE>>>>,         \* 1.0, clamped; weight 0.5
     <<"R", <<4, 0, 1000000, 2, FALSE>>>>,  \* 0.999996
     <<"R", <<499, 0, 500, 2, TRUE>>>>,     \* 0.998
     <<"R", <<999, 0, 2000, 2, TRUE>>>>,    \* 0.4995
     <<"R", <<997, 0, 4000, 2, TRUE>>>>,    \* 0.24925
     <<"R", <<1, 0, 400, 2, TRUE>>>>,       \* 0.0025
     <<"R", <<1, 1, 1, 2, FALSE>>>>,        \* equal bounds
     <<"P", <<2, 0, 3, 2, FALSE>>>>,
     <<"P", <<1, 0, 3, 2, TRUE>>>>,
     <<"P", <<5, 0, 2, 1, TRUE>>>>,
     <<"O", <<1, 0, 2, 0, TRUE>>>>,         \* weight 0.0
     <<"I", <<1, 0, 3, 2, TRUE>>>>,
     <<"X", <<1, 0, 2, 2, TRUE>>>>}

\* the choices of the longer lists: one for each block, and a second for R
FullChoices ==
    {<<"R", <<2, 0, 3, 2, FALSE>>>>,
     <<"R", <<1, 0, 3, 2, TRUE>>>>,
     <<"P", <<1, 0, 3, 2, TRUE>>>>,
     <<"O", <<1, 0, 3, 2, TRUE>>>>,
     <<"I", <<1, 0, 3, 2, TRUE>>>>}

\* ids are given by position, so they are unique within a request
IdNames == <<"i1", "i2", "i3", "i4", "i5">>

\* the indicator list that holds, at position k, block f[k][1] with the
\* measurement f[k][2] under the id IdNames[k]
IndicatorAt(k, block, m) ==
    Indicator(IdNames[k], block, m[1], m[2], m[3], m[4], m[5])

IndicatorList(f, n) ==
    [k \in 1..n |-> IndicatorAt(k, f[k][1], Measurement(f[k][2]))]

\* the block weights a request of the model may hold
BlockWeightChoices ==
    {DefaultBlockWeights,
     BlockWeights(One, One, Zero, Zero),
     BlockWeights(Frac(1, 2000), Zero, Zero, Zero),
     BlockWeights(FNeg(Quarter), Quarter, Quarter, Quarter)}

\* r is a request of at most MaxInds indicators
EvaluateInput(r) ==
    \E n \in 0..MaxInds :
        \E f \in [1..n -> IF n <= MaxVaried THEN IndicatorChoices
                          ELSE FullChoices] :
        \E bw \in BlockWeightChoices :
            r = EvaluationRequest(Some("TATU"), Some(2024), IndicatorList(f, n), bw)

-----------------------------------------------------------------------------
(* The engine: each of its three functions called once on an input *)

NoCall == [op |-> "none", req |-> None, outcome |-> [kind |-> "none"]]

\* the service's variables, which the engine harness leaves alone
ServiceUnused ==
    /\ store = <<>>
    /\ last = NoCall
    /\ running = {}
    /\ returned = <<>>
    /\ failed = 0

InitEngine ==
    /\ \/ fn = "normalize" /\ arg \in NormalizeInputs
       \/ fn = "classify_level" /\ arg \in ClassifyInputs
       \/ fn = "evaluate" /\ EvaluateInput(arg)
    /\ ret = None
    /\ ServiceUnused

normalize_call ==
    /\ fn = "normalize" /\ ret = None
    /\ ret' = Some(normalize(arg))
    /\ UNCHANGED <<fn, arg, store, last, running, returned, failed>>

classify_level_call ==
    /\ fn = "classify_level" /\ ret = None
    /\ ret' = Some(classify_level(arg))
    /\ UNCHANGED <<fn, arg, store, last, running, returned, failed>>

evaluate_call ==
    /\ fn = "evaluate" /\ ret = None
    /\ ret' = Some(evaluate(arg))
    /\ UNCHANGED <<fn, arg, store, last, running, returned, failed>>

NextEngine == normalize_call \/ classify_level_call \/ evaluate_call

SpecEngine == InitEngine /\ [][NextEngine]_vars

-----------------------------------------------------------------------------
(* main.py: the handlers, over the evaluations table *)

\* block_values of the stored row: block code -> the reported block index
row_block_values(result) ==
    [b \in {result.blocks[k].block : k \in 1..Len(result.blocks)} |->
        LET at == CHOOSE k \in 1..Len(result.blocks) :
                    /\ result.blocks[k].block = b
                    /\ \A j \in 1..Len(result.blocks) :
                            result.blocks[j].block = b => j <= k
        IN  result.blocks[at].value]

\* what the Float column of the table holds for a float bound to it, as it
\* is read back: SQLite stores a NaN as NULL and a negative zero as 0.0
FloatColumn(x) ==
    IF x.kind = "nan" THEN None
    ELSE IF IsZero(x) THEN Some(Zero)
    ELSE Some(x)

\* the Evaluation row the table holds for a result
Evaluation(id, result) ==
    [id |-> id,
     tashkilot |-> result.tashkilot,
     yil |-> result.yil,
     total_index |-> FloatColumn(result.total_index),
     block_values |-> row_block_values(result)]

\* the primary key the table gives a new row: 1 in an empty table, otherwise
\* one more than the largest id it holds
next_id(rows) ==
    IF rows = <<>> THEN 1
    ELSE 1 + (CHOOSE i \in {rows[k].id : k \in 1..Len(rows)} :
                \A k \in 1..Len(rows) : rows[k].id <= i)

\* ORDER BY yil, id: NULL years first, then ascending years, ids ascending
\* within a year
RowBefore(a, b) ==
    IF a.yil = b.yil THEN a.id < b.id
    ELSE IF a.yil = None THEN TRUE
    ELSE IF b.yil = None THEN FALSE
    ELSE a.yil[1] < b.yil[1]

\* the rows in insertion order, whatever their years
order_by_IdOnly(rows) == rows

\* query(Evaluation).order_by(Evaluation.yil, Evaluation.id).all()
order_by(rows) ==
    LET RECURSIVE sorted(_)
        sorted(n) ==
            IF n = 0 THEN <<>>
            ELSE LET prev  == sorted(n - 1)
                     lower == SelectSeq(prev, LAMBDA r : RowBefore(r, rows[n]))
                     upper == SelectSeq(prev, LAMBDA r : ~RowBefore(r, rows[n]))
                 IN  lower \o <<rows[n]>> \o upper
    IN  sorted(Len(rows))

\* the first row of the sheet
headers == <<"#", "Tashkilot", "Yil", "Umumiy indeks", "R", "P", "O", "I">>

\* a data row of the sheet: row number, tashkilot or "", yil or "",
\* total_index or None, R, P, O, I; a missing or empty tashkilot and a
\* missing or zero yil give ""
ExcelRow(idx, row) ==
    <<idx,
      IF row.tashkilot = None \/ row.tashkilot = Some("") THEN ""
      ELSE row.tashkilot[1],
      IF row.yil = None \/ row.yil = Some(0) THEN "" ELSE row.yil[1],
      IF row.total_index = None THEN None ELSE row.total_index[1],
      row.block_values["R"], row.block_values["P"],
      row.block_values["O"], row.block_values["I"]>>

\* the organisation and year of the requests sent to the service
ServiceMeta ==
    {<<None, None>>, <<Some("TATU"), Some(2024)>>, <<Some(""), Some(0)>>}

\* the indicator list of the requests that are served: z = 0.998, which
\* with the default block weights gives the weighted sum 0.2495
ServedIndicatorList == <<<<"R", <<499, 0, 500, 2, TRUE>>>>>>

\* indicator lists with an indicator of an unknown block, second or first in
\* the list
UnknownIndicatorLists ==
    {<<<<"R", <<1, 0, 3, 2, TRUE>>>>, <<"X", <<1, 0, 2, 2, TRUE>>>>>>,
     <<<<"Y", <<1, 0, 2, 2, TRUE>>>>, <<"X", <<1, 0, 2, 2, TRUE>>>>,
       <<"P", <<1, 0, 3, 2, TRUE>>>>>>}

\* block weights that check_non_negative lets pass although they are not
\* positive numbers: a NaN, which gives the total NaN, and negative zeros,
\* which give the total -0.0
UnorderedBlockWeights ==
    {BlockWeights(Quarter, NaN, Quarter, Quarter),
     BlockWeights(SignedZero(1), SignedZero(1), SignedZero(1), SignedZero(1))}

\* the requests sent to the service, as <<tashkilot, yil, indicators, block
\* weights>>
ServiceRequestChoices ==
    {<<m[1], m[2], ServedIndicatorList, DefaultBlockWeights>> :
        m \in ServiceMeta}
    \cup {<<Some("TATU"), Some(2024), f, DefaultBlockWeights>> :
            f \in UnknownIndicatorLists}
    \cup {<<None, None, ServedIndicatorList, bw>> :
            bw \in UnorderedBlockWeights}

ServiceRequests ==
    {EvaluationRequest(c[1], c[2], IndicatorList(c[3], Len(c[3])), c[4]) :
        c \in ServiceRequestChoices}

\* Start of the service: create_all creates the evaluations table only if
\* the database file does not have it, so the table holds what earlier runs
\* of the service stored in the file: no row, or the rows of the results of
\* up to MaxStored requests, with the ids the table gave them
StoredBefore(results) ==
    /\ \A k \in 1..Len(results) : results[k].kind = "result"
    /\ store = [k \in 1..Len(results) |-> Evaluation(k, results[k])]

InitService ==
    /\ fn = "none" /\ arg = None /\ ret = None
    /\ \E n \in 0..MaxStored : \E f \in [1..n -> ServiceRequests] :
        StoredBefore(Prefix([k \in 1..n |-> evaluate(f[k])], n))
    /\ running = {}
    /\ returned = <<>>
    /\ last = NoCall
    /\ failed = 0

\* what a statement sent to the database raises when another connection
\* holds the lock on the file for longer than the busy timeout
OperationalError == [kind |-> "error", exception |-> "OperationalError"]

\* evaluate_endpoint after evaluate_core, where result is what evaluate_core
\* returned or raised: an exception of evaluate_core leaves the handler
\* before anything is added to the session; db.commit() inserts the row and
\* ends the transaction, or raises and stores nothing
evaluate_endpoint_commit(req, result) ==
    IF result.kind = "error"
    THEN /\ failed' = failed + 1
         /\ last' = [op |-> "evaluate", req |-> req, outcome |-> result]
         /\ UNCHANGED <<store, running, returned>>
    ELSE \/ /\ store' = Append(store, Evaluation(next_id(store), result))
            /\ running' = running \cup {[id |-> next_id(store), req |-> req,
                                          result |-> result]}
            /\ last' = [op |-> "evaluate", req |-> req,
                        outcome |-> [kind |-> "stored",
                                     id |-> next_id(store)]]
            /\ UNCHANGED <<returned, failed>>
         \/ /\ failed' = failed + 1
            /\ last' = [op |-> "evaluate", req |-> req,
                        outcome |-> OperationalError]
            /\ UNCHANGED <<store, running, returned>>

\* evaluate_endpoint, called with the request object req, up to the end of
\* db.commit(); the handlers run in a thread pool, so other requests are
\* served between the commit of a handler and its return
evaluate_endpoint(req) ==
    /\ Len(returned) + failed + Cardinality(running) < MaxRequests
    /\ evaluate_endpoint_commit(req, evaluate(req))
    /\ UNCHANGED <<fn, arg, ret>>

\* the rest of evaluate_endpoint for a handler that has committed:
\* db.refresh(db_obj) reads the row again, and the handler returns the
\* result, or the read raises and the request fails with its row stored
evaluate_endpoint_refresh ==
    \E h \in running :
        /\ running' = running \ {h}
        /\ \/ /\ returned' = Append(returned, h.result)
              /\ last' = [op |-> "evaluate", req |-> h.req,
                          outcome |-> h.result]
              /\ UNCHANGED failed
           \/ /\ failed' = failed + 1
              /\ last' = [op |-> "evaluate", req |-> h.req,
                          outcome |-> OperationalError]
              /\ UNCHANGED returned
        /\ UNCHANGED <<fn, arg, ret, store>>

\* POST /evaluate: the body is validated into an EvaluationRequest first, and
\* the handler runs only on a valid one
post_evaluate(req) ==
    IF EvaluationRequestValid(req)
    THEN evaluate_endpoint(req)
    ELSE /\ Len(returned) + failed + Cardinality(running) < MaxRequests
         /\ failed' = failed + 1
         /\ last' = [op |-> "evaluate", req |-> req,
                     outcome |-> [kind |-> "rejected"]]
         /\ UNCHANGED <<fn, arg, ret, store, running, returned>>

\* GET /evaluations: the rows of the query, or the exception it raises
list_evaluations ==
    /\ \/ last' = [op |-> "list_evaluations", req |-> None,
                   outcome |-> [kind |-> "rows", rows |-> order_by(store)]]
       \/ last' = [op |-> "list_evaluations", req |-> None,
                   outcome |-> OperationalError]
    /\ UNCHANGED <<fn, arg, ret, store, running, returned, failed>>

\* GET /export/excel: the sheet holds the header row and a row for each
\* evaluation of the query, unless the query raises
export_excel ==
    /\ \/ last' = [op |-> "export_excel", req |-> None,
                   outcome |-> [kind |-> "workbook",
                                rows |-> LET evaluations == order_by(store)
                                         IN  <<headers>> \o
                                             [k \in 1..Len(evaluations) |->
                                                 ExcelRow(k, evaluations[k])]]]
       \/ last' = [op |-> "export_excel", req |-> None,
                   outcome |-> OperationalError]
    /\ UNCHANGED <<fn, arg, ret, store, running, returned, failed>>

NextService ==
    \/ \E req \in ServiceRequests : post_evaluate(req)
    \/ \E req \in ServiceRequests : evaluate_endpoint(req)
    \/ evaluate_endpoint_refresh
    \/ list_evaluations
    \/ export_excel

SpecService == InitService /\ [][NextService]_vars

-----------------------------------------------------------------------------
(* The specification's formulas, restated independently of the model's     *)
(* operators for the code                                                  *)

\* a call of f has returned
Returned(f) == fn = f /\ ret # None

\* evaluate has returned a result (it did not raise)
EvaluateResult == Returned("evaluate") /\ ret[1].kind = "result"

\* |a|
FAbs(a) == IF a.kind = "nan" THEN a ELSE [a EXCEPT !.s = 0]

\* x and y differ by at most 1/1000000000
Near(x, y) ==
    Then(x, LAMBDA v : FLe(FAbs(FSub(v, y)), Frac(1, 1000000000)))

\* clamp01 of section 4.1
Clamp01(x) == IF FLt(x, Zero) THEN Zero ELSE IF FLt(One, x) THEN One ELSE x

\* (value - min_value) / (max_value - min_value), for max_value # min_value
Ratio(ind) ==
    FDiv(FSub(ind.value, ind.min_value), FSub(ind.max_value, ind.min_value))

\* the normalized value of section 4.1
SpecZ(ind) ==
    IF FEq(ind.max_value, ind.min_value) THEN Zero
    ELSE IF ind.is_benefit THEN Clamp01(Ratio(ind))
    ELSE Clamp01(FSub(One, Ratio(ind)))

\* f[1] + ... + f[n], the terms added in this order
RECURSIVE FSum(_, _)
FSum(f, n) == IF n = 0 THEN Zero ELSE FAdd(FSum(f, n - 1), f[n])

\* the indicators of category c, in the order of the request
InCategory(req, c) == SelectSeq(req.indicators, LAMBDA i : i.block = c)

SpecWeightSum(req, c) ==
    LET g == InCategory(req, c)
    IN  FSum([k \in 1..Len(g) |-> g[k].weight], Len(g))

\* the weighted mean of section 4.2, for a category whose weights do not
\* sum to 0
SpecWeightedMean(req, c) ==
    LET g == InCategory(req, c)
    IN  Then(Prefix([k \in 1..Len(g) |-> FMul(SpecZ(g[k]), g[k].weight)],
                    Len(g)),
             LAMBDA terms : FDiv(FSum(terms, Len(g)), SpecWeightSum(req, c)))

\* the category index of section 4.2, before rounding
SpecCategoryIndex(req, c) ==
    IF InCategory(req, c) = <<>> \/ FEq(SpecWeightSum(req, c), Zero) THEN Zero
    ELSE SpecWeightedMean(req, c)

\* the four category weights, in the order R, P, O, I
Alpha(req) ==
    <<req.block_weights.alpha_R, req.block_weights.alpha_P,
      req.block_weights.alpha_O, req.block_weights.alpha_I>>

\* the weighted sum of section 4.3 over the unrounded category indices
SpecWeightedSum(req) ==
    Then(Prefix([k \in 1..4 |->
                    SpecCategoryIndex(req, CategoryCodes[k])], 4),
         LAMBDA index :
            Then(Prefix([k \in 1..4 |-> FMul(Alpha(req)[k], index[k])], 4),
                 LAMBDA terms : FSum(terms, 4)))

\* the weighted sum over the category indices as the result reports them
ReportedWeightedSum(req, result) ==
    FSum([k \in 1..4 |-> FMul(Alpha(req)[k], result.blocks[k].value)], 4)

\* t is x rounded to 3 places: a 3-decimal value at most 1/2000 away from x,
\* with a margin of 1/1000000000 for the rounding of the operations
IsRound3Of(t, x) ==
    Then(x, LAMBDA v :
        /\ FEq(t, Round3(t))
        /\ FLe(FAbs(FSub(t, v)), Frac(500001, 1000000000)))

\* the threshold table of section 4.4
TableTier(t) ==
    CASE FLt(t, Frac(25, 100)) -> "Past"
      [] FLe(Frac(25, 100), t) /\ FLt(t, Frac(50, 100)) -> "O'rtacha"
      [] FLe(Frac(50, 100), t) /\ FLt(t, Frac(75, 100)) -> "Yuqori"
      [] FLe(Frac(75, 100), t) -> "Juda yuqori"

\* the first position, in the order R, P, O, I, at which v is least / greatest
FirstLeast(v) ==
    CHOOSE k \in 1..4 : /\ \A j \in 1..4 : FLe(v[k], v[j])
                        /\ \A j \in 1..(k - 1) : ~FEq(v[j], v[k])

FirstGreatest(v) ==
    CHOOSE k \in 1..4 : /\ \A j \in 1..4 : FLe(v[j], v[k])
                        /\ \A j \in 1..(k - 1) : ~FEq(v[j], v[k])

-----------------------------------------------------------------------------
(* Claims on the engine, under SpecEngine *)

\* C1: for an indicator with max_value # min_value, normalize returns
\* clamp01 of the ratio for a benefit indicator and clamp01 of 1 minus the
\* ratio for a cost indicator; the result is in [0, 1] however far the value
\* lies outside the bounds; a cost indicator gives 1 at value = min_value and
\* 0 at value = max_value, a benefit indicator the reverse.
C1_NormalizeFormula ==
    (Returned("normalize") /\ ~FEq(arg.max_value, arg.min_value)) =>
        /\ FEq(ret[1], IF arg.is_benefit THEN Clamp01(Ratio(arg))
                       ELSE Clamp01(FSub(One, Ratio(arg))))
        /\ FLe(Zero, ret[1]) /\ FLe(ret[1], One)
        /\ FEq(arg.value, arg.min_value) =>
                FEq(ret[1], IF arg.is_benefit THEN Zero ELSE One)
        /\ FEq(arg.value, arg.max_value) =>
                FEq(ret[1], IF arg.is_benefit THEN One ELSE Zero)

\* a cost indicator whose value lies above both bounds was normalized to 0
C1_Witness ==
    /\ Returned("normalize")
    /\ ~arg.is_benefit
    /\ FLt(arg.min_value, arg.max_value)
    /\ FLt(arg.max_value, arg.value)
    /\ FEq(ret[1], Zero)

\* C2: for an indicator with max_value = min_value, normalize returns
\* exactly 0.0 for every raw value and both polarities, and evaluate on a
\* request of known blocks holding such an indicator returns a result, in
\* which that indicator's normalized value is 0.0.
C2_DegenerateBounds ==
    /\ (Returned("normalize") /\ FEq(arg.max_value, arg.min_value)) =>
            ret[1] = Zero
    /\ (Returned("evaluate") /\ UnknownAt(arg.indicators) = {}) =>
            \A k \in 1..Len(arg.indicators) :
                LET ind == arg.indicators[k]
                IN  FEq(ind.max_value, ind.min_value) =>
                        /\ ret[1].kind = "result"
                        /\ \E j \in 1..Len(ret[1].blocks) :
                            /\ ret[1].blocks[j].block = ind.block
                            /\ ind.id \in DOMAIN ret[1].blocks[j].indicators
                            /\ ret[1].blocks[j].indicators[ind.id] = Zero

\* evaluate returned a result for a request whose first indicator is a cost
\* indicator with equal bounds
C2_Witness ==
    /\ EvaluateResult
    /\ Len(arg.indicators) >= 1
    /\ FEq(arg.indicators[1].max_value, arg.indicators[1].min_value)
    /\ ~arg.indicators[1].is_benefit
    /\ \E j \in 1..Len(ret[1].blocks) :
        /\ ret[1].blocks[j].block = arg.indicators[1].block
        /\ ret[1].blocks[j].indicators[arg.indicators[1].id] = Zero

\* C3: for every category with at least one indicator, the reported category
\* index is the weighted mean of the normalized values rounded to 3 places,
\* and 0 when the weights sum to 0; the reported index is in [0, 1].
C3_CategoryIndex ==
    EvaluateResult =>
        \A j \in 1..Len(ret[1].blocks) :
            LET c == ret[1].blocks[j].block
            IN  InCategory(arg, c) # <<>> =>
                /\ ~FEq(SpecWeightSum(arg, c), Zero) =>
                    FEq(ret[1].blocks[j].value,
                        Round3(SpecWeightedMean(arg, c)))
                /\ FEq(SpecWeightSum(arg, c), Zero) =>
                    FEq(ret[1].blocks[j].value, Zero)
                /\ FLe(Zero, ret[1].blocks[j].value)
                /\ FLe(ret[1].blocks[j].value, One)

\* normalized values 0.24925 (weight 1) and 1.0 (weight 0.5) in block R: the
\* weighted mean is the float 0.4995, which lies below the decimal 0.4995,
\* and is reported as 0.499
C3_Witness ==
    /\ EvaluateResult
    /\ Len(arg.indicators) = 2
    /\ arg.indicators[1].block = "R" /\ arg.indicators[2].block = "R"
    /\ SpecZ(arg.indicators[1]) = Frac(997, 4000)
    /\ arg.indicators[1].weight = One
    /\ SpecZ(arg.indicators[2]) = One /\ arg.indicators[2].weight = Half
    /\ SpecWeightedMean(arg, "R") = Frac(4995, 10000)
    /\ ret[1].blocks[1].value = Frac(499, 1000)

\* C4: every result holds exactly one entry for each of R, P, O, I, in that
\* order, whatever the indicators (an empty list included); a category with
\* no indicator has index 0.0 and an empty mapping of normalized values.
C4_FourCategories ==
    EvaluateResult =>
        /\ Len(ret[1].blocks) = 4
        /\ ret[1].blocks[1].block = "R" /\ ret[1].blocks[2].block = "P"
        /\ ret[1].blocks[3].block = "O" /\ ret[1].blocks[4].block = "I"
        /\ \A j \in 1..Len(ret[1].blocks) :
            InCategory(arg, ret[1].blocks[j].block) = <<>> =>
                /\ ret[1].blocks[j].value = Zero
                /\ DOMAIN ret[1].blocks[j].indicators = {}

\* evaluate returned a result for a request with no indicator at all
C4_Witness ==
    /\ EvaluateResult
    /\ arg.indicators = <<>>
    /\ Len(ret[1].blocks) = 4

\* C6 as claimed: the overall index is the weighted sum of the reported
\* (3-decimal) category indices, rounded to 3 places.
C6_TotalFromReported ==
    EvaluateResult =>
        IsRound3Of(ret[1].total_index, ReportedWeightedSum(arg, ret[1]))

\* C6, amended: the overall index is the weighted sum of the category indices
\* before their rounding (the weighted means themselves), rounded to 3
\* places; no clamping is applied to the sum.
C6_TotalFromUnrounded ==
    EvaluateResult =>
        Then(SpecWeightedSum(arg), LAMBDA sum :
            /\ FEq(ret[1].total_index, Round3(sum))
            /\ IsRound3Of(ret[1].total_index, sum))

\* a result whose overall index is not the one its reported category indices
\* give: two categories of index 1/3 (reported 0.333) with weight 1 each
C6_Witness ==
    /\ EvaluateResult
    /\ ~IsRound3Of(ret[1].total_index, ReportedWeightedSum(arg, ret[1]))
    /\ ret[1].blocks[1].value = Frac(333, 1000)
    /\ ret[1].blocks[2].value = Frac(333, 1000)
    /\ ret[1].total_index = Frac(667, 1000)

\* C7 as claimed: the tier is the one the threshold table assigns, for
\* classify_level called directly and for evaluate, where a weighted sum of
\* 0.249999 is "Past" (Low) as well.
C7_TierOfWeightedSum ==
    /\ Returned("classify_level") => ret[1] = TableTier(arg)
    /\ EvaluateResult =>
        /\ ret[1].level = TableTier(ret[1].total_index)
        /\ Near(SpecWeightedSum(arg), Frac(249999, 1000000)) =>
                ret[1].level = "Past"

\* C7, amended: classify_level returns the tier the threshold table assigns
\* to its argument (0.25 is "O'rtacha", 0.5 "Yuqori", 0.75 "Juda yuqori",
\* 0.249999 "Past"), and the tier of a result is the tier of its overall
\* index, which is the weighted sum rounded to 3 places: a weighted sum of
\* 0.249999 is reported as 0.25 and labelled "O'rtacha" (Medium).
C7_TierOfRoundedTotal ==
    /\ Returned("classify_level") =>
        /\ ret[1] = TableTier(arg)
        /\ arg = Frac(1, 4) => ret[1] = "O'rtacha"
        /\ arg = Frac(1, 2) => ret[1] = "Yuqori"
        /\ arg = Frac(3, 4) => ret[1] = "Juda yuqori"
        /\ arg = Frac(249999, 1000000) => ret[1] = "Past"
    /\ EvaluateResult =>
        /\ ret[1].level = TableTier(ret[1].total_index)
        /\ IsRound3Of(ret[1].total_index, SpecWeightedSum(arg))
        /\ Near(SpecWeightedSum(arg), Frac(249999, 1000000)) =>
                ret[1].level = "O'rtacha"

\* evaluate returned the tier "O'rtacha" for a weighted sum of 0.249999
C7_Witness ==
    /\ EvaluateResult
    /\ Near(SpecWeightedSum(arg), Frac(249999, 1000000))
    /\ ret[1].total_index = Frac(1, 4)
    /\ ret[1].level = "O'rtacha"

\* C8 as claimed: weakest_block (strongest_block) is the first category in
\* the order R, P, O, I whose reported index is the least (greatest) of the
\* four reported indices.
C8_ExtremaOfReported ==
    EvaluateResult =>
        LET v == [k \in 1..4 |-> ret[1].blocks[k].value]
        IN  /\ ret[1].weakest_block = CategoryCodes[FirstLeast(v)]
            /\ ret[1].strongest_block = CategoryCodes[FirstGreatest(v)]

\* C8, amended: weakest_block (strongest_block) is the first category in the
\* order R, P, O, I whose index before rounding is the least (greatest) of
\* the four; when all four are equal both are "R".
C8_ExtremaOfUnrounded ==
    EvaluateResult =>
        LET v == Prefix([k \in 1..4 |->
                            SpecCategoryIndex(arg, CategoryCodes[k])], 4)
        IN  /\ ret[1].weakest_block = CategoryCodes[FirstLeast(v)]
            /\ ret[1].strongest_block = CategoryCodes[FirstGreatest(v)]
            /\ (\A k \in 1..4 : FEq(v[k], v[1])) =>
                    /\ ret[1].weakest_block = "R"
                    /\ ret[1].strongest_block = "R"

\* R (0.3333333333333333) and P (0.33333333333333337) are both reported as
\* 0.333, and the strongest is P
C8_Witness ==
    /\ EvaluateResult
    /\ ret[1].blocks[1].value = Frac(333, 1000)
    /\ ret[1].blocks[2].value = Frac(333, 1000)
    /\ FLt(SpecCategoryIndex(arg, "R"), SpecCategoryIndex(arg, "P"))
    /\ ret[1].strongest_block = "P"

\* C10 as claimed: with non-negative category weights the overall index is
\* never below 0 and never above 1.
C10_TotalInUnitInterval ==
    (EvaluateResult /\ check_non_negative(arg.block_weights)) =>
        /\ FLe(Zero, ret[1].total_index)
        /\ FLe(ret[1].total_index, One)

\* C10, amended: with non-negative category weights the overall index is
\* never below 0 and never above the sum of the four weights rounded to 3
\* places (so at most 1 when the weights sum to at most 1).
C10_TotalBoundedByWeights ==
    (EvaluateResult /\ check_non_negative(arg.block_weights)) =>
        /\ FLe(Zero, ret[1].total_index)
        /\ FLe(ret[1].total_index, Round3(FSum(Alpha(arg), 4)))

\* non-negative weights and an overall index above 1 that reaches the bound:
\* weights 1, 1, 0, 0 and the indices of R and P both 1 give 2.0
C10_Witness ==
    /\ EvaluateResult
    /\ check_non_negative(arg.block_weights)
    /\ FLt(One, ret[1].total_index)
    /\ ret[1].total_index = Round3(FSum(Alpha(arg), 4))

-----------------------------------------------------------------------------
(* Claims on the service, under SpecService *)

\* a step in which one /evaluate request ended: it returned a result or failed
EvaluateStep == Len(returned') + failed' = Len(returned) + failed + 1

\* C5: if any indicator of a request, at any position, has a block code
\* outside R, P, O, I, the request fails: evaluate raises an error that names
\* the first such code and returns no result, and the handler stores no row,
\* so the stored evaluations are left as they were; no handler that has
\* committed a row is serving such a request.
C5_UnknownBlockRejected ==
    /\ [](\A h \in running : UnknownAt(h.req.indicators) = {})
    /\ [][(EvaluateStep /\ UnknownAt(last'.req.indicators) # {}) =>
            /\ last'.outcome.kind \in {"error", "rejected"}
            /\ last'.outcome.kind = "error" =>
                /\ last'.outcome.exception = "ValueError"
                /\ ~(last'.outcome.code \in {"R", "P", "O", "I"})
                /\ \E k \in 1..Len(last'.req.indicators) :
                    /\ last'.req.indicators[k].block = last'.outcome.code
                    /\ \A j \in 1..(k - 1) :
                            last'.req.indicators[j].block
                                \in {"R", "P", "O", "I"}
            /\ failed' = failed + 1
            /\ returned' = returned
            /\ running' = running
            /\ store' = store]_vars

\* with rows already stored, the handler was given a request whose second
\* indicator has the unknown block X, and evaluate raised naming X
C5_Witness ==
    /\ last.op = "evaluate"
    /\ last.outcome.kind = "error"
    /\ last.outcome.exception = "ValueError"
    /\ last.outcome.code = "X"
    /\ Len(last.req.indicators) = 2
    /\ last.req.indicators[1].block = "R"
    /\ last.req.indicators[2].block = "X"
    /\ Len(store) = 2
    /\ running = {}
    /\ failed = 1
    /\ Len(returned) = 1

\* row carries the organisation, year and four reported category indices of
\* result
RowMatches(row, result) ==
    /\ row.tashkilot = result.tashkilot
    /\ row.yil = result.yil
    /\ DOMAIN row.block_values = {"R", "P", "O", "I"}
    /\ \A j \in 1..4 :
        row.block_values[result.blocks[j].block] = result.blocks[j].value

\* row carries, besides, the overall index of result
RowCarries(row, result) ==
    /\ RowMatches(row, result)
    /\ row.total_index # None
    /\ FEq(row.total_index[1], result.total_index)

\* row carries, besides, the overall index of result as the table stores
\* it: no value for a NaN, 0.0 for a zero of either sign, and the overall
\* index itself otherwise
RowOf(row, result) ==
    /\ RowMatches(row, result)
    /\ IF result.total_index.kind = "nan" THEN row.total_index = None
       ELSE /\ row.total_index # None
            /\ FEq(row.total_index[1], result.total_index)
            /\ row.total_index[1] # SignedZero(1)
            /\ ~IsZero(result.total_index) =>
                    row.total_index[1] = result.total_index

\* rows holds every row of stored once, ordered by year (the rows without a
\* year first) and, within a year, as they are ordered in stored
IsListing(rows, stored) ==
    /\ Len(rows) = Len(stored)
    /\ \E at \in [1..Len(rows) -> 1..Len(stored)] :
        /\ \A i \in 1..Len(rows) : rows[i] = stored[at[i]]
        /\ \A i \in 1..Len(rows) : \A j \in (i + 1)..Len(rows) :
            /\ at[i] # at[j]
            /\ IF rows[i].yil = rows[j].yil THEN at[i] < at[j]
               ELSE \/ rows[i].yil = None
                    \/ /\ rows[j].yil # None
                       /\ rows[i].yil[1] < rows[j].yil[1]

\* the handlers that end in this step
Ending == running \ running'

\* C9 as the spec states it: the store holds a record for a request that
\* returned a result, carrying the overall index of the result, and none for
\* a request that failed.
C9_OneRowPerResult ==
    [][/\ returned' # returned =>
            \A h \in Ending : \E k \in 1..Len(store') :
                store'[k].id = h.id /\ RowCarries(store'[k], h.result)
       /\ failed' # failed =>
            \A h \in Ending : \A k \in 1..Len(store') : store'[k].id # h.id]_vars

\* C9: whatever rows the store held when the service started, the store
\* changes only when the handler of an /evaluate request whose evaluation gave
\* a result commits, and then by one row added after the others, with an id
\* above theirs and with that result's organisation, year, four reported
\* category indices and overall index (no value for a NaN, 0.0 for -0.0);
\* the row is stored from then on, while the handler has not returned, when
\* it returns the result, and when it fails after the commit; a request
\* that fails before the commit stores nothing; /evaluations lists all
\* stored rows ordered by year (rows without a year first) and, within a
\* year, by insertion order; the sheet of /export/excel holds a header row
\* and one row per stored row; listing and export leave the stored rows as
\* they are.
C9_StoreAndListing ==
    /\ [](/\ \A i \in 1..Len(store) : \A j \in (i + 1)..Len(store) :
                store[i].id < store[j].id
          /\ \A h \in running :
                /\ h.result.kind = "result"
                /\ \E k \in 1..Len(store) :
                        store[k].id = h.id /\ RowOf(store[k], h.result))
    /\ [][/\ store' # store =>
                /\ store' = Append(store, store'[Len(store')])
                /\ \E h \in running' \ running :
                    /\ running' = running \cup {h}
                    /\ h.req = last'.req
                    /\ store'[Len(store')].id = h.id
                    /\ RowOf(store'[Len(store')], h.result)
                /\ returned' = returned
                /\ failed' = failed
          /\ returned' # returned =>
                /\ \E h \in running :
                    /\ running' = running \ {h}
                    /\ returned' = Append(returned, h.result)
                /\ store' = store
                /\ failed' = failed
          /\ failed' # failed =>
                /\ failed' = failed + 1
                /\ \/ running' = running
                   \/ \E h \in running :
                        /\ running' = running \ {h}
                        /\ last'.outcome = OperationalError
                /\ store' = store
                /\ returned' = returned
          /\ running' # running =>
                store' # store \/ returned' # returned \/ failed' # failed
          /\ last'.op \in {"list_evaluations", "export_excel"} =>
                /\ UNCHANGED <<store, running, returned, failed>>
                /\ last'.outcome.kind = "rows" =>
                        IsListing(last'.outcome.rows, store)
                /\ last'.outcome.kind = "workbook" =>
                        /\ Len(last'.outcome.rows) = Len(store) + 1
                        /\ last'.outcome.rows[1] = headers]_vars

\* the service started with a row of year 2024 in the store; a request
\* without a year whose overall index is NaN failed after its commit, and the
\* handler of one whose overall index is -0.0 has committed and not returned;
\* the listing puts their rows, which hold no overall index and 0.0, before
\* the older row
C9_Witness ==
    /\ last.op = "list_evaluations"
    /\ last.outcome.kind = "rows"
    /\ failed = 1
    /\ returned = <<>>
    /\ Len(store) = 3
    /\ store[1].yil = Some(2024)
    /\ store[2].yil = None /\ store[2].total_index = None
    /\ store[3].yil = None /\ store[3].total_index = Some(Zero)
    /\ \E h \in running :
        /\ running = {h}
        /\ h.id = store[3].id
        /\ h.result.total_index = SignedZero(1)
    /\ last.outcome.rows = <<store[2], store[3], store[1]>>

====
